---- MODULE Spec2Model ----
(***************************************************************************)
(* Model of the rust-processor ingestion pipeline of the cemetery platform *)
(* (models.rs, parser.rs, database.rs, processor.rs, main.rs).             *)
(*                                                                         *)
(* Representation:                                                         *)
(*   Option<T>      None is << >>, Some(v) is <<v>>                        *)
(*   Result<T, E>   a record [ok, val, err]                                *)
(*   NaiveDate      the integer YYYYMMDD, which orders as the date does    *)
(*   f64            the integer value * 10000 (90.0001 is 900001)          *)
(*   a file         its name (stem, extension) and its bytes, given as the *)
(*                  two views the two parsers take of them: `lines` (the   *)
(*                  csv reader's string records) and `doc` (the value      *)
(*                  serde_json reads)                                      *)
(***************************************************************************)
EXTENDS Integers, Sequences, FiniteSets, TLC

VARIABLES
    table,      \* deceased_records: the rows, in insertion order
    features,   \* najaf_cemetery_features: the rows, in insertion order
    log,        \* file_processing_log: the rows, in insertion order
    now,        \* the database clock (CURRENT_TIMESTAMP), one tick per statement
    pc,         \* per pipeline instance: the statement it is about to run
    req,        \* per pipeline instance: the request it serves
    run,        \* per pipeline instance: the locals of process_directory / process_single_file
    response,   \* per pipeline instance: what the run returned
    hist,       \* per pipeline instance: observations of earlier statements (ghost)
    parsed,     \* parser harness: the file under test and what the parser returned
    store0      \* the deceased_records table the behaviour began with (ghost)

vars == <<table, features, log, now, pc, req, run, response, hist, parsed, store0>>

-----------------------------------------------------------------------------
(* Option and Result                                                       *)

None == << >>

Some(v) == <<v>>

IsSome(o) == o # << >>

Unwrap(o) == o[1]

UnwrapOr(o, d) == IF IsSome(o) THEN o[1] ELSE d

Ok(v) == [ok |-> TRUE, val |-> v, err |-> ""]

Err(e) == [ok |-> FALSE, val |-> << >>, err |-> e]

-----------------------------------------------------------------------------
(* models.rs: DeceasedRecord                                               *)

\* The record both parsers build: the fields they never set are None.
DeceasedRecord(id, name, arabic, death, burial, loc, sec, roww, plot, lat, lon) ==
    [ record_id            |-> id,
      deceased_name        |-> name,
      deceased_name_arabic |-> arabic,
      father_name          |-> None,
      grandfather_name     |-> None,
      death_date           |-> death,
      death_location       |-> None,
      burial_date          |-> burial,
      burial_location      |-> loc,
      section              |-> sec,
      row_number           |-> roww,
      plot_number          |-> plot,
      grave_number         |-> None,
      latitude             |-> lat,
      longitude            |-> lon,
      age_at_death         |-> None,
      cause_of_death       |-> None,
      national_id          |-> None,
      family_contact       |-> None,
      additional_data      |-> None ]

\* An f64 is carried as the integer of its value times 10000.  The f64 that is
\* no number, which str::parse::<f64> returns for the text "NaN", is carried as
\* a code outside the values of the model.
NaN == 99999999

\* f64 `<` and `>`: false whenever an operand is NaN
f64_lt(a, b) == a # NaN /\ b # NaN /\ a < b

f64_gt(a, b) == a # NaN /\ b # NaN /\ a > b

validate(r) ==
    IF r.record_id = "" THEN Err("record_id is required")
    ELSE IF r.deceased_name = "" THEN Err("deceased_name is required")
    ELSE IF r.burial_location = "" THEN Err("burial_location is required")
    ELSE IF r.burial_date < r.death_date
        THEN Err("burial_date cannot be before death_date")
    ELSE IF IsSome(r.latitude) /\ IsSome(r.longitude)
                /\ (f64_lt(Unwrap(r.latitude), -900000)
                    \/ f64_gt(Unwrap(r.latitude), 900000))
        THEN Err("Invalid latitude")
    ELSE IF IsSome(r.latitude) /\ IsSome(r.longitude)
                /\ (f64_lt(Unwrap(r.longitude), -1800000)
                    \/ f64_gt(Unwrap(r.longitude), 1800000))
        THEN Err("Invalid longitude")
    ELSE Ok(<< >>)

has_coordinates(r) == IsSome(r.latitude) /\ IsSome(r.longitude)

-----------------------------------------------------------------------------
(* parser.rs: the conversions of field text                                *)

\* NaiveDate::parse_from_str(s, "%Y-%m-%d") on the date texts of the model.
DateText ==
    [s \in {"2020-01-01", "2020-01-02", "2020-01-03"} |->
        CASE s = "2020-01-01" -> 20200101
          [] s = "2020-01-02" -> 20200102
          [] s = "2020-01-03" -> 20200103]

parse_date(s) == IF s \in DOMAIN DateText THEN Ok(DateText[s]) ELSE Err("date")

\* str::parse::<f64>().ok() on the number texts of the model.
F64Text ==
    [s \in {"32.0", "44.3", "90.0", "90.0001", "-180.0", "180.0", "180.0001", "NaN"} |->
        CASE s = "NaN" -> NaN
          [] s = "32.0" -> 320000
          [] s = "44.3" -> 443000
          [] s = "90.0" -> 900000
          [] s = "90.0001" -> 900001
          [] s = "-180.0" -> -1800000
          [] s = "180.0" -> 1800000
          [] s = "180.0001" -> 1800001]

parse_f64(s) == IF s \in DOMAIN F64Text THEN Some(F64Text[s]) ELSE None

\* str::parse::<i32>().ok() on the number texts of the model.
I32Text ==
    [s \in {"1", "2", "7"} |->
        CASE s = "1" -> 1
          [] s = "2" -> 2
          [] s = "7" -> 7]

parse_i32(s) == IF s \in DOMAIN I32Text THEN Some(I32Text[s]) ELSE None

\* An extension taken as it is written.
keep_case(s) == s

\* str::to_lowercase on the extensions of the model.
to_lowercase(s) ==
    CASE s \in {"csv", "CSV", "Csv"} -> "csv"
      [] s \in {"json", "JSON", "Json"} -> "json"
      [] s \in {"txt", "TXT"} -> "txt"
      [] OTHER -> s

-----------------------------------------------------------------------------
(* models.rs: the GeoJSON feature of a record                              *)

\* NaiveDate::to_string: the YYYY-MM-DD text of a date
to_string(d) == CHOOSE s \in DOMAIN DateText : DateText[s] = d

\* What `if let Some(v) = o { properties.insert(key, v) }` adds to the map.
insert_if_some(key, o) == IF IsSome(o) THEN key :> Unwrap(o) ELSE [k \in {} |-> k]

\* The properties map of a feature: four members always, three when present.
feature_properties(r) ==
    [k \in {"record_id", "name", "burial_date", "burial_location"} |->
        CASE k = "record_id" -> r.record_id
          [] k = "name" -> r.deceased_name
          [] k = "burial_date" -> to_string(r.burial_date)
          [] k = "burial_location" -> r.burial_location]
    @@ insert_if_some("section", r.section)
    @@ insert_if_some("row", r.row_number)
    @@ insert_if_some("plot", r.plot_number)

\* A feature whose point is written latitude first.
to_geojson_feature_lat_first(r) ==
    IF ~has_coordinates(r) THEN None
    ELSE Some([feature_type |-> "Feature",
               geometry     |-> [geometry_type |-> "Point",
                                 coordinates   |-> <<Unwrap(r.latitude),
                                                     Unwrap(r.longitude)>>],
               properties   |-> feature_properties(r)])

to_geojson_feature(r) ==
    IF ~has_coordinates(r) THEN None
    ELSE Some([feature_type |-> "Feature",
               geometry     |-> [geometry_type |-> "Point",
                                 coordinates   |-> <<Unwrap(r.longitude),
                                                     Unwrap(r.latitude)>>],
               properties   |-> feature_properties(r)])

-----------------------------------------------------------------------------
(* parser.rs: the delimited-tabular strategy                               *)

\* csv::StringRecord::get
get(record, i) == IF i + 1 <= Len(record) THEN Some(record[i + 1]) ELSE None

\* Option::and_then over one of the text conversions above
and_then_f64(o) == IF IsSome(o) THEN parse_f64(Unwrap(o)) ELSE None

and_then_i32(o) == IF IsSome(o) THEN parse_i32(Unwrap(o)) ELSE None

parse_csv_record(record) ==
    LET death  == parse_date(UnwrapOr(get(record, 3), ""))
        burial == parse_date(UnwrapOr(get(record, 4), ""))
    IN  IF ~death.ok THEN Err("death_date")
        ELSE IF ~burial.ok THEN Err("burial_date")
        ELSE Ok(DeceasedRecord(
                UnwrapOr(get(record, 0), ""),
                UnwrapOr(get(record, 1), ""),
                get(record, 2),
                death.val,
                burial.val,
                UnwrapOr(get(record, 5), ""),
                get(record, 8),
                and_then_i32(get(record, 9)),
                and_then_i32(get(record, 10)),
                and_then_f64(get(record, 6)),
                and_then_f64(get(record, 7))))

\* What the csv reader yields for one data line: the reader is not flexible, so
\* a line whose field count differs from the header's is a read error.
csv_deserialize(header, line) ==
    IF Len(line) = Len(header) THEN Ok(line) ELSE Err("unequal lengths")

\* The loop of parse_csv_file over the data lines from line k on.  acc holds
\* the records pushed and the line numbers warned about so far.
RECURSIVE csv_loop(_, _, _, _)
csv_loop(header, lines, k, acc) ==
    IF k > Len(lines) THEN Ok(acc)
    ELSE LET result == csv_deserialize(header, lines[k])
         IN  IF result.ok
             THEN LET rec == parse_csv_record(result.val)
                  IN  IF rec.ok
                      THEN csv_loop(header, lines, k + 1,
                               [acc EXCEPT !.records = Append(@, rec.val)])
                      ELSE Err(rec.err)
             ELSE csv_loop(header, lines, k + 1,
                      [acc EXCEPT !.warnings = Append(@, k)])

\* file.lines[1] is the header line, file.lines[k] the line the code numbers k.
\* The value holds the records and, beside them, the lines the code warned about
\* (its warn! calls), which the code itself does not return.
csv_run(file) ==
    IF ~file.readable THEN Err("open")
    ELSE IF file.lines = << >> THEN Ok([records |-> << >>, warnings |-> << >>])
    ELSE csv_loop(file.lines[1], file.lines, 2,
                  [records |-> << >>, warnings |-> << >>])

parse_csv_file(file) ==
    LET r == csv_run(file) IN IF r.ok THEN Ok(r.val.records) ELSE Err(r.err)

-----------------------------------------------------------------------------
(* parser.rs: the structured-hierarchical strategy                         *)

\* serde's derive on JsonCoordinates: both members are required.
coordinates_deserialize(o) ==
    ~IsSome(o) \/ (IsSome(Unwrap(o).latitude) /\ IsSome(Unwrap(o).longitude))

\* serde's derive on JsonRecord: the String fields are required.
record_deserialize(j) ==
    /\ IsSome(j.record_id)
    /\ IsSome(j.deceased_name)
    /\ IsSome(j.death_date)
    /\ IsSome(j.burial_date)
    /\ IsSome(j.burial_location)
    /\ coordinates_deserialize(j.coordinates)

\* serde_json::from_reader::<JsonData>
json_deserialize(doc) ==
    IF ~doc.syntax_ok THEN Err("json syntax")
    ELSE IF ~IsSome(doc.records) THEN Err("missing field records")
    ELSE IF \E k \in 1..Len(Unwrap(doc.records)) :
                ~record_deserialize(Unwrap(doc.records)[k])
        THEN Err("missing field")
    ELSE Ok(Unwrap(doc.records))

json_record(j, death, burial) ==
    DeceasedRecord(
        Unwrap(j.record_id),
        Unwrap(j.deceased_name),
        j.deceased_name_arabic,
        death,
        burial,
        Unwrap(j.burial_location),
        IF IsSome(j.location) THEN Unwrap(j.location).section ELSE None,
        IF IsSome(j.location) THEN Unwrap(j.location).row ELSE None,
        IF IsSome(j.location) THEN Unwrap(j.location).plot ELSE None,
        IF IsSome(j.coordinates) THEN Unwrap(j.coordinates).latitude ELSE None,
        IF IsSome(j.coordinates) THEN Unwrap(j.coordinates).longitude ELSE None)

\* A loop that passes over an element whose dates do not parse.
RECURSIVE json_loop_skipping(_, _, _)
json_loop_skipping(recs, k, acc) ==
    IF k > Len(recs) THEN Ok(acc)
    ELSE LET death  == parse_date(Unwrap(recs[k].death_date))
             burial == parse_date(Unwrap(recs[k].burial_date))
         IN  IF ~death.ok \/ ~burial.ok THEN json_loop_skipping(recs, k + 1, acc)
             ELSE json_loop_skipping(recs, k + 1,
                      Append(acc, json_record(recs[k], death.val, burial.val)))

\* The loop of parse_json_file over data.records from element k on.
RECURSIVE json_loop(_, _, _)
json_loop(recs, k, acc) ==
    IF k > Len(recs) THEN Ok(acc)
    ELSE LET death  == parse_date(Unwrap(recs[k].death_date))
             burial == parse_date(Unwrap(recs[k].burial_date))
         IN  IF ~death.ok THEN Err("death_date")
             ELSE IF ~burial.ok THEN Err("burial_date")
             ELSE json_loop(recs, k + 1,
                      Append(acc, json_record(recs[k], death.val, burial.val)))

parse_json_file(file) ==
    IF ~file.readable THEN Err("open")
    ELSE LET data == json_deserialize(file.doc)
         IN  IF ~data.ok THEN Err(data.err) ELSE json_loop(data.val, 1, << >>)

-----------------------------------------------------------------------------
(* parser.rs: format detection                                             *)

\* Path::extension().and_then(to_str).map(to_lowercase)
extension(file) == IF IsSome(file.ext) THEN Some(to_lowercase(Unwrap(file.ext))) ELSE None

detect_and_parse(file) ==
    CASE extension(file) = Some("csv") -> parse_csv_file(file)
      [] extension(file) = Some("json") -> parse_json_file(file)
      [] extension(file) = None -> Err("No file extension found")
      [] OTHER -> Err("Unsupported file format")

-----------------------------------------------------------------------------
(* database.rs: the statements                                             *)

\* format!("POINT({} {})", lon, lat), or None
coordinates_wkt(record) ==
    IF IsSome(record.latitude) /\ IsSome(record.longitude)
    THEN Some(<<"POINT", Unwrap(record.longitude), Unwrap(record.latitude)>>)
    ELSE None

\* ST_GeomFromText($14, 4326): NULL for a NULL text, else the point of the text
ST_GeomFromText(wkt, srid) ==
    IF IsSome(wkt)
    THEN Some([srid |-> srid, x |-> Unwrap(wkt)[2], y |-> Unwrap(wkt)[3]])
    ELSE None

\* The row the VALUES list of the INSERT proposes (EXCLUDED on a conflict).
excluded(record, source_file, ts) ==
    [ record_id            |-> record.record_id,
      deceased_name        |-> record.deceased_name,
      deceased_name_arabic |-> record.deceased_name_arabic,
      father_name          |-> record.father_name,
      grandfather_name     |-> record.grandfather_name,
      death_date           |-> record.death_date,
      death_location       |-> record.death_location,
      burial_date          |-> record.burial_date,
      burial_location      |-> record.burial_location,
      section              |-> record.section,
      row_number           |-> record.row_number,
      plot_number          |-> record.plot_number,
      grave_number         |-> record.grave_number,
      coordinates          |-> ST_GeomFromText(coordinates_wkt(record), 4326),
      age_at_death         |-> record.age_at_death,
      cause_of_death       |-> record.cause_of_death,
      national_id          |-> record.national_id,
      family_contact       |-> record.family_contact,
      additional_data      |-> record.additional_data,
      source_file          |-> source_file,
      processing_status    |-> "completed",
      updated_at           |-> ts ]

\* A conflict that replaces the whole row, as REPLACE would.
on_conflict_replace(row, new) == new

\* ON CONFLICT (record_id) DO UPDATE SET ...
on_conflict_update(row, new) ==
    [row EXCEPT !.deceased_name     = new.deceased_name,
                !.burial_date       = new.burial_date,
                !.coordinates       = new.coordinates,
                !.updated_at        = new.updated_at,
                !.processing_status = new.processing_status]

\* An INSERT without its ON CONFLICT clause on a table without its unique key.
insert_without_conflict(tbl, record, source_file, ts) ==
    Append(tbl, excluded(record, source_file, ts))

\* The table after a successful insert_deceased_record.  The generated id the
\* statement returns is left out: insert_batch discards it.
insert_deceased_record(tbl, record, source_file, ts) ==
    LET new == excluded(record, source_file, ts)
    IN  IF \E k \in 1..Len(tbl) : tbl[k].record_id = new.record_id
        THEN [k \in 1..Len(tbl) |->
                 IF tbl[k].record_id = new.record_id
                 THEN on_conflict_update(tbl[k], new)
                 ELSE tbl[k]]
        ELSE Append(tbl, new)

\* burial_date::text
date_text(d) == CHOOSE s \in DOMAIN DateText : DateText[s] = d

\* One row of the SELECT of create_geojson_features.
feature_of(row) ==
    [ feature_id |-> row.record_id,
      geometry   |-> row.coordinates,
      properties |-> [ record_id       |-> row.record_id,
                       name            |-> row.deceased_name,
                       burial_date     |-> date_text(row.burial_date),
                       burial_location |-> row.burial_location,
                       section         |-> row.section,
                       row             |-> row.row_number,
                       plot            |-> row.plot_number ] ]

\* WHERE coordinates IS NOT NULL AND processing_status = 'completed'
feature_source(row) == IsSome(row.coordinates) /\ row.processing_status = "completed"

RECURSIVE select_features(_)
select_features(tbl) ==
    IF tbl = << >> THEN << >>
    ELSE IF feature_source(Head(tbl))
         THEN <<feature_of(Head(tbl))>> \o select_features(Tail(tbl))
         ELSE select_features(Tail(tbl))

\* A DELETE that removes nothing.
delete_nothing(feat) == feat

\* DELETE FROM najaf_cemetery_features
delete_features(feat) == << >>

\* INSERT INTO najaf_cemetery_features ... SELECT ... FROM deceased_records
insert_features(feat, tbl) == feat \o select_features(tbl)

\* The row log_file_processing inserts.
log_entry(filename, file_hash, file_size, total, processed, failed, status, error_message, ts) ==
    [ filename            |-> filename,
      file_hash           |-> file_hash,
      file_size           |-> file_size,
      records_total       |-> total,
      records_processed   |-> processed,
      records_failed      |-> failed,
      status              |-> status,
      error_message       |-> error_message,
      processing_end_time |-> ts ]

-----------------------------------------------------------------------------
(* processor.rs: the synchronous part of a run (scan, parse, validate)     *)

\* ErrorDetails pushed for a file detect_and_parse failed on
file_error(file, e) ==
    [record_id |-> None, message |-> <<"Failed to parse file", file.stem, file.ext, e>>]

\* ErrorDetails pushed for a record validate() failed on
validation_error(record, e) ==
    [record_id |-> Some(record.record_id), message |-> <<e>>]

\* A scan that gives up at the first file it cannot parse.
RECURSIVE scan_until_failure(_, _, _)
scan_until_failure(entries, k, acc) ==
    IF k > Len(entries) THEN acc
    ELSE IF entries[k].kind # "file" THEN scan_until_failure(entries, k + 1, acc)
    ELSE LET r == detect_and_parse(entries[k])
         IN  IF r.ok
             THEN scan_until_failure(entries, k + 1,
                      [acc EXCEPT !.all_records = @ \o r.val])
             ELSE [acc EXCEPT !.errors = Append(@, file_error(entries[k], r.err))]

\* The loop of process_directory over the entries of the directory from entry
\* k on; acc holds all_records and errors.
RECURSIVE scan_loop(_, _, _)
scan_loop(entries, k, acc) ==
    IF k > Len(entries) THEN acc
    ELSE IF entries[k].kind # "file" THEN scan_loop(entries, k + 1, acc)
    ELSE LET r == detect_and_parse(entries[k])
         IN  IF r.ok
             THEN scan_loop(entries, k + 1,
                      [acc EXCEPT !.all_records = @ \o r.val])
             ELSE scan_loop(entries, k + 1,
                      [acc EXCEPT !.errors = Append(@, file_error(entries[k], r.err))])

\* A validation loop that reports a failing record and keeps it in the batch.
RECURSIVE validate_without_drop(_, _, _)
validate_without_drop(records, k, acc) ==
    IF k > Len(records) THEN acc
    ELSE LET v == validate(records[k])
         IN  IF v.ok
             THEN validate_without_drop(records, k + 1,
                      [acc EXCEPT !.valid_records = Append(@, records[k])])
             ELSE validate_without_drop(records, k + 1,
                      [acc EXCEPT !.valid_records = Append(@, records[k]),
                                  !.errors = Append(@, validation_error(records[k], v.err))])

\* The validation loop of both entry points over records from record k on;
\* acc holds valid_records and errors.
RECURSIVE validate_loop(_, _, _)
validate_loop(records, k, acc) ==
    IF k > Len(records) THEN acc
    ELSE LET v == validate(records[k])
         IN  IF v.ok
             THEN validate_loop(records, k + 1,
                      [acc EXCEPT !.valid_records = Append(@, records[k])])
             ELSE validate_loop(records, k + 1,
                      [acc EXCEPT !.errors = Append(@, validation_error(records[k], v.err))])

\* process_directory up to its first await: Err, or Ok of valid_records and errors.
\* A process_directory without its check of the path.
directory_prepare_unchecked(path) ==
    IF ~path.readable THEN Err("read_dir")
    ELSE LET scanned == scan_loop(path.entries, 1,
                            [all_records |-> << >>, errors |-> << >>])
         IN  Ok(validate_loop(scanned.all_records, 1,
                    [valid_records |-> << >>, errors |-> scanned.errors]))

directory_prepare(path) ==
    IF path.kind # "dir"
    THEN Err("Directory does not exist or is not a directory")
    ELSE IF ~path.readable THEN Err("read_dir")
    ELSE LET scanned == scan_loop(path.entries, 1,
                            [all_records |-> << >>, errors |-> << >>])
         IN  Ok(validate_loop(scanned.all_records, 1,
                    [valid_records |-> << >>, errors |-> scanned.errors]))

\* process_single_file up to its first await: Err, or Ok of valid_records and errors.
single_file_prepare(path) ==
    IF path.kind # "file"
    THEN Err("File does not exist or is not a file")
    ELSE LET records == detect_and_parse(path)
         IN  IF ~records.ok THEN Err(records.err)
             ELSE Ok(validate_loop(records.val, 1,
                        [valid_records |-> << >>, errors |-> << >>]))

prepare(request) ==
    IF request.entry = "directory"
    THEN directory_prepare(request.path)
    ELSE single_file_prepare(request.path)

\* ProcessingResult
processing_result(inserted, errors, geojson_count) ==
    [ records_processed        |-> inserted,
      records_failed           |-> Len(errors),
      geojson_features_created |-> geojson_count,
      errors                   |-> errors ]

-----------------------------------------------------------------------------
(* Bounds                                                                  *)

\* entries of a directory
MaxFiles == 2

\* times a pipeline instance is handed the same request
MaxRuns == 2

\* pipeline instances serving requests at the same time
NumProcs == 2

\* data lines of a tabular file given to the parser harness
MaxRows == 3

-----------------------------------------------------------------------------
(* Inputs: files, directories, requests, stores                            *)

NotJson == [syntax_ok |-> FALSE, records |-> None]

Missing ==
    [kind |-> "missing", stem |-> "", ext |-> None, readable |-> FALSE,
     lines |-> << >>, doc |-> NotJson, entries |-> << >>]

TableFile(stem, ext, lines) ==
    [kind |-> "file", stem |-> stem, ext |-> ext, readable |-> TRUE,
     lines |-> lines, doc |-> NotJson, entries |-> << >>]

TreeFile(stem, ext, recs) ==
    [kind |-> "file", stem |-> stem, ext |-> ext, readable |-> TRUE,
     lines |-> << >>, doc |-> [syntax_ok |-> TRUE, records |-> Some(recs)],
     entries |-> << >>]

Directory(stem, entries, readable) ==
    [kind |-> "dir", stem |-> stem, ext |-> None, readable |-> readable,
     lines |-> << >>, doc |-> NotJson, entries |-> entries]

\* The column order parse_csv_record expects.
Header ==
    <<"record_id", "deceased_name", "deceased_name_arabic", "death_date",
      "burial_date", "burial_location", "latitude", "longitude", "section",
      "row", "plot">>

\* a valid row with coordinates
RowR1 ==
    <<"R1", "Ali", "Ali-ar", "2020-01-01", "2020-01-02", "Najaf",
      "32.0", "44.3", "A", "1", "2">>

\* a valid row without coordinates, buried on the day of death
RowR2 ==
    <<"R2", "Hasan", "", "2020-01-02", "2020-01-02", "Najaf",
      "", "", "", "", "">>

\* a row whose burial date is not YYYY-MM-DD
RowBadDate ==
    <<"R3", "Omar", "", "2020-01-01", "02/01/2020", "Najaf",
      "32.0", "44.3", "B", "7", "1">>

\* identity R1 again, every other field different, no coordinates
RowR1b ==
    <<"R1", "Ali Reza", "Ali-ar2", "2020-01-02", "2020-01-03", "Kufa",
      "", "", "C", "2", "7">>

\* a row validate() rejects: no name
RowNoName ==
    <<"R4", "", "", "2020-01-01", "2020-01-02", "Najaf",
      "32.0", "44.3", "A", "1", "1">>

\* a line with too few fields: a read error of the csv reader
RowShort == <<"R6", "Zaid">>

\* identity R1 once more, valid, died and buried a day after R1's burial
RowR1c ==
    <<"R1", "Ali", "", "2020-01-03", "2020-01-03", "Najaf",
      "", "", "", "", "">>

\* a valid row with a latitude and no longitude
RowOnlyLat ==
    <<"R7", "Musa", "", "2020-01-01", "2020-01-02", "Najaf",
      "32.0", "", "A", "1", "1">>

\* a valid row with a longitude and no latitude
RowOnlyLon ==
    <<"R9", "Isa", "", "2020-01-01", "2020-01-02", "Najaf",
      "", "44.3", "A", "1", "2">>

JsonObject(id, name, death, burial, loc, coords, location) ==
    [ record_id            |-> id,
      deceased_name        |-> name,
      deceased_name_arabic |-> None,
      death_date           |-> death,
      burial_date          |-> burial,
      burial_location      |-> loc,
      coordinates          |-> coords,
      location             |-> location ]

\* identity R2 with coordinates and a location
JsonR2 ==
    JsonObject(Some("R2"), Some("Hasan J"), Some("2020-01-01"), Some("2020-01-03"),
               Some("Karbala"),
               Some([latitude |-> Some(320000), longitude |-> Some(443000)]),
               Some([section |-> Some("D"), row |-> Some(7), plot |-> None]))

\* an object whose death date is not YYYY-MM-DD
JsonBadDate ==
    JsonObject(Some("R7"), Some("Musa"), Some("2020/01/01"), Some("2020-01-03"),
               Some("Najaf"), None, None)

FileA == TableFile("a", Some("csv"), <<Header, RowR1, RowBadDate, RowR2>>)

FileB == TableFile("b", Some("CSV"), <<Header, RowR1b, RowNoName>>)

FileC == TableFile("c", Some("csv"), <<Header, RowShort, RowR2, RowR1>>)

FileD == TableFile("d", Some("csv"), <<Header, RowOnlyLat, RowOnlyLon>>)

FileE == TableFile("e", Some("csv"), <<Header, RowR1c>>)

FileT == TableFile("notes", Some("txt"), <<Header, RowR1>>)

FileN == TableFile("README", None, << >>)

FileJ == TreeFile("j", Some("json"), <<JsonR2>>)

FileJBad == TreeFile("k", Some("Json"), <<JsonR2, JsonBadDate>>)

SubDir == Directory("sub", << >>, TRUE)

SampleEntries == {FileA, FileB, FileC, FileD, FileE, FileT, FileN, FileJ, SubDir}

\* The listings read_dir can yield: no two entries of a directory share a name.
Listings ==
    {l \in UNION {[1..n -> SampleEntries] : n \in 0..MaxFiles} :
        \A j, k \in 1..Len(l) : j # k => l[j] # l[k]}

\* FileMetadata of the request
Metadata == [filename |-> "export.zip", file_hash |-> "h1", size |-> 10]

Request(entry, path) == [entry |-> entry, path |-> path, metadata |-> Metadata]

Requests ==
    {Request("directory", Directory("data", l, TRUE)) : l \in Listings}
    \cup {Request("directory", Missing),
          Request("directory", FileC),
          Request("directory", Directory("data", <<FileC>>, FALSE))}
    \cup {Request("single", f) : f \in SampleEntries \cup {FileJBad, Missing}}

\* The requests of the specification that runs a request twice: directories
\* of the files that parse.
FewEntries == {FileB, FileC, FileJ}

FewListings ==
    {l \in UNION {[1..n -> FewEntries] : n \in 0..MaxFiles} :
        \A j, k \in 1..Len(l) : j # k => l[j] # l[k]}

FewRequests == {Request("directory", Directory("data", l, TRUE)) : l \in FewListings}

\* The requests of the specification that runs several requests at a time:
\* a directory of one file that parses.
ConcRequests == {Request("directory", Directory("data", <<f>>, TRUE)) : f \in {FileB, FileJ}}

\* Rows other ingestions left in the shared database: R1 with every column
\* set, and R8, which has coordinates and is not yet completed.
LegacyR1 ==
    [excluded([DeceasedRecord("R1", "Ali (old)", Some("Ali-old"), 20200101, 20200101,
                              "Old Najaf", Some("Z"), Some(7), Some(7),
                              Some(320000), Some(443000))
                 EXCEPT !.father_name = Some("Husayn"),
                        !.grandfather_name = Some("Jafar"),
                        !.death_location = Some("Baghdad"),
                        !.grave_number = Some("G1"),
                        !.age_at_death = Some(70),
                        !.cause_of_death = Some("natural"),
                        !.national_id = Some("N-1"),
                        !.family_contact = Some("+964"),
                        !.additional_data = Some("{}")],
              "legacy.zip", 0)
     EXCEPT !.processing_status = "completed"]

LegacyR8 ==
    [excluded(DeceasedRecord("R8", "Kadhim", None, 20200101, 20200102, "Najaf",
                             None, None, None, Some(320000), Some(443000)),
              "legacy.zip", 0)
     EXCEPT !.processing_status = "pending"]

Stores == {<< >>, <<LegacyR1, LegacyR8>>}

-----------------------------------------------------------------------------
(* State                                                                   *)

Procs == 1..NumProcs

NoRun ==
    [valid_records |-> << >>, errors |-> << >>, i |-> 1, inserted |-> 0,
     geojson_count |-> 0]

\* runs: the requests handed in so far; attempts: the turns of insert_batch's
\* loop taken; before: the feature collection when the rebuild began; prev: the
\* end of the run before this one.
NoHist == [runs |-> 0, attempts |-> << >>, before |-> None, prev |-> None]

NoRequest == Request("none", Missing)

InitWith(t) ==
    /\ table = t
    /\ features = select_features(t)
    /\ log = << >>
    /\ now = 1
    /\ pc = [p \in Procs |-> "idle"]
    /\ req = [p \in Procs |-> NoRequest]
    /\ run = [p \in Procs |-> NoRun]
    /\ response = [p \in Procs |-> None]
    /\ hist = [p \in Procs |-> NoHist]
    /\ parsed = None
    /\ store0 = t

Init == \E t \in Stores : InitWith(t)

\* the table with the modification timestamps blanked
no_ts(tbl) == [k \in 1..Len(tbl) |-> [tbl[k] EXCEPT !.updated_at = 0]]

\* What is remembered of a run when the same request is handed in again.
snapshot(p) ==
    [table |-> no_ts(table), features |-> features, log |-> log,
     response |-> response[p], attempts |-> hist[p].attempts]

-----------------------------------------------------------------------------
(* processor.rs: a run, one step per database statement                    *)

\* The run up to its first await: the path check, the scan, the parsing and
\* the validation touch no shared state and run without interruption.
Begin(p, request, h) ==
    LET prep == prepare(request)
    IN  /\ req' = [req EXCEPT ![p] = request]
        /\ hist' = [hist EXCEPT ![p] = h]
        /\ IF prep.ok
           THEN /\ run' = [run EXCEPT ![p] =
                              [NoRun EXCEPT !.valid_records = prep.val.valid_records,
                                            !.errors = prep.val.errors]]
                /\ pc' = [pc EXCEPT ![p] =
                             IF prep.val.valid_records = << >> THEN "delete" ELSE "insert"]
                /\ response' = [response EXCEPT ![p] = None]
           ELSE /\ run' = [run EXCEPT ![p] = NoRun]
                /\ pc' = [pc EXCEPT ![p] = "done"]
                /\ response' = [response EXCEPT ![p] = Some(Err(prep.err))]
        /\ UNCHANGED <<table, features, log, now, parsed, store0>>

\* main.rs process_data, or a caller of process_single_file: a first request.
Receive(p) ==
    /\ pc[p] = "idle"
    /\ \E request \in Requests :
           Begin(p, request, [NoHist EXCEPT !.runs = 1])

\* The same, the request drawn from the smaller set.
ReceiveFew(p) ==
    /\ pc[p] = "idle"
    /\ \E request \in FewRequests :
           Begin(p, request, [NoHist EXCEPT !.runs = 1])

\* The same, for one of several instances running at a time.
ReceiveConc(p) ==
    /\ pc[p] = "idle"
    /\ \E request \in ConcRequests :
           Begin(p, request, [NoHist EXCEPT !.runs = 1])

\* The client hands in again the request that was served.
Resubmit(p) ==
    /\ pc[p] = "done"
    /\ Unwrap(response[p]).ok
    /\ hist[p].runs < MaxRuns
    /\ Begin(p, req[p], [NoHist EXCEPT !.runs = hist[p].runs + 1,
                                       !.prev = Some(snapshot(p))])

\* What a fatal error does to the run: `?` returns it to the caller.
Abort(p, e) ==
    /\ pc' = [pc EXCEPT ![p] = "done"]
    /\ response' = [response EXCEPT ![p] = Some(Err(e))]

\* insert_batch, one turn of its loop: the statement succeeds.
InsertRecord(p) ==
    /\ pc[p] = "insert"
    /\ LET record == run[p].valid_records[run[p].i]
       IN  /\ table' = insert_deceased_record(table, record, req[p].metadata.filename, now)
           /\ hist' = [hist EXCEPT ![p].attempts =
                          Append(@, [record |-> record, ok |-> TRUE])]
    /\ now' = now + 1
    /\ run' = [run EXCEPT ![p].i = @ + 1, ![p].inserted = @ + 1]
    /\ pc' = [pc EXCEPT ![p] =
                 IF run[p].i = Len(run[p].valid_records) THEN "delete" ELSE "insert"]
    /\ UNCHANGED <<features, log, req, response, parsed, store0>>

\* An insert_batch that returns the first statement failure to its caller.
InsertRecordFailsFast(p) ==
    /\ pc[p] = "insert"
    /\ LET record == run[p].valid_records[run[p].i]
       IN  hist' = [hist EXCEPT ![p].attempts =
                       Append(@, [record |-> record, ok |-> FALSE])]
    /\ Abort(p, "sqlx")
    /\ now' = now + 1
    /\ UNCHANGED <<table, features, log, req, run, parsed, store0>>

\* insert_batch, one turn of its loop: the statement fails, which is logged.
InsertRecordFails(p) ==
    /\ pc[p] = "insert"
    /\ LET record == run[p].valid_records[run[p].i]
       IN  hist' = [hist EXCEPT ![p].attempts =
                       Append(@, [record |-> record, ok |-> FALSE])]
    /\ now' = now + 1
    /\ run' = [run EXCEPT ![p].i = @ + 1]
    /\ pc' = [pc EXCEPT ![p] =
                 IF run[p].i = Len(run[p].valid_records) THEN "delete" ELSE "insert"]
    /\ UNCHANGED <<table, features, log, req, response, parsed, store0>>

\* A DELETE that takes with it the records the deleted features came from.
DeleteFeaturesCascades(p) ==
    /\ pc[p] = "delete"
    /\ features' = delete_features(features)
    /\ table' = SelectSeq(table, LAMBDA row :
                     \A j \in 1..Len(features) : features[j].feature_id # row.record_id)
    /\ hist' = [hist EXCEPT ![p].before = Some(features)]
    /\ now' = now + 1
    /\ pc' = [pc EXCEPT ![p] = "select"]
    /\ UNCHANGED <<log, req, run, response, parsed, store0>>

\* create_geojson_features, first statement
DeleteFeatures(p) ==
    /\ pc[p] = "delete"
    /\ features' = delete_features(features)
    /\ hist' = [hist EXCEPT ![p].before = Some(features)]
    /\ now' = now + 1
    /\ pc' = [pc EXCEPT ![p] = "select"]
    /\ UNCHANGED <<table, log, req, run, response, parsed, store0>>

DeleteFeaturesFails(p) ==
    /\ pc[p] = "delete"
    /\ Abort(p, "sqlx")
    /\ now' = now + 1
    /\ UNCHANGED <<table, features, log, req, run, hist, parsed, store0>>

\* create_geojson_features, second statement
InsertFeatures(p) ==
    /\ pc[p] = "select"
    /\ features' = insert_features(features, table)
    /\ run' = [run EXCEPT ![p].geojson_count = Len(select_features(table))]
    /\ now' = now + 1
    /\ pc' = [pc EXCEPT ![p] = "log"]
    /\ UNCHANGED <<table, log, req, response, hist, parsed, store0>>

\* A rebuild that is begun again when its second statement fails.
InsertFeaturesRetries(p) ==
    /\ pc[p] = "select"
    /\ pc' = [pc EXCEPT ![p] = "delete"]
    /\ now' = now + 1
    /\ UNCHANGED <<table, features, log, req, run, response, hist, parsed, store0>>

InsertFeaturesFails(p) ==
    /\ pc[p] = "select"
    /\ Abort(p, "sqlx")
    /\ now' = now + 1
    /\ UNCHANGED <<table, features, log, req, run, hist, parsed, store0>>

\* A log_file_processing that keeps one entry per filename, the new entry
\* taking the place of the old.
LogFileProcessingOverwrites(p) ==
    /\ pc[p] = "log"
    /\ log' = SelectSeq(log, LAMBDA e : e.filename # req[p].metadata.filename)
                 \o <<log_entry(req[p].metadata.filename, req[p].metadata.file_hash,
                                req[p].metadata.size,
                                Len(run[p].valid_records) + Len(run[p].errors),
                                run[p].inserted, Len(run[p].errors),
                                "completed", None, now)>>
    /\ now' = now + 1
    /\ pc' = [pc EXCEPT ![p] = "done"]
    /\ response' = [response EXCEPT ![p] =
                       Some(Ok(processing_result(run[p].inserted, run[p].errors,
                                                 run[p].geojson_count)))]
    /\ UNCHANGED <<table, features, req, run, hist, parsed, store0>>

\* log_file_processing and the return of the result
LogFileProcessing(p) ==
    /\ pc[p] = "log"
    /\ log' = Append(log,
                  log_entry(req[p].metadata.filename, req[p].metadata.file_hash,
                            req[p].metadata.size,
                            Len(run[p].valid_records) + Len(run[p].errors),
                            run[p].inserted, Len(run[p].errors),
                            "completed", None, now))
    /\ now' = now + 1
    /\ pc' = [pc EXCEPT ![p] = "done"]
    /\ response' = [response EXCEPT ![p] =
                       Some(Ok(processing_result(run[p].inserted, run[p].errors,
                                                 run[p].geojson_count)))]
    /\ UNCHANGED <<table, features, req, run, hist, parsed, store0>>

\* A failure of the audit write that undoes the upserts of the run, as if the
\* run were one transaction.
LogFileProcessingFailsRollsBack(p) ==
    /\ pc[p] = "log"
    /\ Abort(p, "sqlx")
    /\ table' = store0
    /\ now' = now + 1
    /\ UNCHANGED <<features, log, req, run, hist, parsed, store0>>

LogFileProcessingFails(p) ==
    /\ pc[p] = "log"
    /\ Abort(p, "sqlx")
    /\ now' = now + 1
    /\ UNCHANGED <<table, features, log, req, run, hist, parsed, store0>>

\* The next statement of the run succeeds.
Succeeds(p) ==
    \/ InsertRecord(p)
    \/ DeleteFeatures(p)
    \/ InsertFeatures(p)
    \/ LogFileProcessing(p)

\* The next statement of the run fails with an sqlx::Error.
Fails(p) ==
    \/ InsertRecordFails(p)
    \/ DeleteFeaturesFails(p)
    \/ InsertFeaturesFails(p)
    \/ LogFileProcessingFails(p)

Statement(p) == Succeeds(p) \/ Fails(p)

\* One pipeline instance serving one request.
Next == Receive(1) \/ Statement(1)

Spec == Init /\ [][Next]_vars

\* One pipeline instance, handed a request and then the same request again.
NextTwice == ReceiveFew(1) \/ Resubmit(1) \/ Statement(1)

SpecTwice == Init /\ [][NextTwice]_vars

\* Pipeline instances serving their requests at the same time on one pool,
\* every statement succeeding.
NextConc == \E p \in Procs : ReceiveConc(p) \/ Succeeds(p)

SpecConc == Init /\ [][NextConc]_vars

-----------------------------------------------------------------------------
(* The parser harness: a file is drawn and given to a parser               *)

\* a row whose death date is not YYYY-MM-DD
RowBadDeath ==
    <<"R5", "Zaid", "", "", "2020-01-02", "Najaf",
      "32.0", "44.3", "A", "1", "1">>

SampleRows == {RowR1, RowR2, RowBadDate, RowBadDeath, RowR1b, RowNoName, RowShort}

TabularFiles ==
    {TableFile("t", Some("csv"), <<Header>> \o rows) :
        rows \in UNION {[1..n -> SampleRows] : n \in 0..MaxRows}}

\* DataParser::parse_csv_file on a tabular file
ParseCsv ==
    /\ parsed = None
    /\ \E file \in TabularFiles :
           parsed' = Some([file |-> file, result |-> csv_run(file)])
    /\ UNCHANGED <<table, features, log, now, pc, req, run, response, hist, store0>>

NextParse == ParseCsv

SpecParse == InitWith(<< >>) /\ [][NextParse]_vars

\* well-formed, without coordinates and location
JsonR3 ==
    JsonObject(Some("R3"), Some("Omar"), Some("2020-01-01"), Some("2020-01-02"),
               Some("Najaf"), None, None)

\* an object whose burial date is not YYYY-MM-DD
JsonBadBurial ==
    JsonObject(Some("R4"), Some("Zaid"), Some("2020-01-01"), Some("03.01.2020"),
               Some("Najaf"), None, None)

\* an object without the required member deceased_name
JsonNoName ==
    JsonObject(Some("R5"), None, Some("2020-01-01"), Some("2020-01-02"),
               Some("Najaf"), None, None)

\* an object whose coordinates lack the required member longitude
JsonHalfCoords ==
    JsonObject(Some("R6"), Some("Isa"), Some("2020-01-01"), Some("2020-01-02"),
               Some("Najaf"),
               Some([latitude |-> Some(320000), longitude |-> None]), None)

\* well-formed, with an empty name: validate() will reject it, the parser not
JsonEmptyName ==
    JsonObject(Some("R8"), Some(""), Some("2020-01-02"), Some("2020-01-02"),
               Some("Najaf"), None, None)

SampleObjects ==
    {JsonR2, JsonR3, JsonEmptyName, JsonBadDate, JsonBadBurial, JsonNoName,
     JsonHalfCoords}

TreeFiles ==
    {TreeFile("t", Some("json"), recs) :
        recs \in UNION {[1..n -> SampleObjects] : n \in 0..MaxRows}}
    \cup {[TreeFile("t", Some("json"), << >>) EXCEPT !.doc = d] :
              d \in {NotJson, [syntax_ok |-> TRUE, records |-> None]}}

\* DataParser::parse_json_file on a hierarchical file
ParseJson ==
    /\ parsed = None
    /\ \E file \in TreeFiles :
           parsed' = Some([op |-> "json", file |-> file,
                           result |-> parse_json_file(file)])
    /\ UNCHANGED <<table, features, log, now, pc, req, run, response, hist, store0>>

NextJson == ParseJson

SpecJson == InitWith(<< >>) /\ [][NextJson]_vars

\* The extensions of the model, those that differ in letter case only
\* together.
ExtensionCases ==
    {{"csv", "CSV", "Csv"}, {"json", "JSON", "Json"}, {"txt", "TXT"}, {"xml"}}

\* Files of every extension, each with every content: unreadable, empty,
\* tabular and hierarchical, well-formed and not.
DetectFiles ==
    {[kind |-> "file", stem |-> "f", ext |-> e, readable |-> r, lines |-> l,
      doc |-> d, entries |-> << >>] :
        e \in {None} \cup {Some(x) : x \in UNION ExtensionCases},
        r \in BOOLEAN,
        l \in {<< >>, <<Header, RowR1>>, <<Header, RowBadDate>>},
        d \in {NotJson, TreeFile("f", None, <<JsonR2>>).doc,
                TreeFile("f", None, <<JsonBadDate>>).doc}}

\* DataParser::detect_and_parse on a file
Detect ==
    /\ parsed = None
    /\ \E file \in DetectFiles :
           parsed' = Some([op |-> "detect", file |-> file,
                           result |-> detect_and_parse(file)])
    /\ UNCHANGED <<table, features, log, now, pc, req, run, response, hist, store0>>

NextDetect == Detect

SpecDetect == InitWith(<< >>) /\ [][NextDetect]_vars

-----------------------------------------------------------------------------
(* The record harness: a record is drawn and given to a method of models.rs *)

\* a row whose latitude text is "NaN"
RowNaN ==
    <<"R5", "Zaid", "", "2020-01-01", "2020-01-02", "Najaf",
      "NaN", "44.3", "A", "1", "1">>

Latitudes ==
    {None, Some(320000), Some(-900001), Some(-900000), Some(900000), Some(900001),
     Some(NaN)}

Longitudes ==
    {None, Some(443000), Some(-1800001), Some(-1800000), Some(1800000),
     Some(1800001), Some(NaN)}

\* Records on and around every bound validate() checks, and the record
\* parse_csv_record builds from a row with a NaN latitude.
SampleRecords ==
    {DeceasedRecord(id, name, None, 20200102, burial, loc, None, None, None, lat, lon) :
        id \in {"", "R1"}, name \in {"", "Ali"}, loc \in {"", "Najaf"},
        burial \in {20200101, 20200102, 20200103},
        lat \in Latitudes, lon \in Longitudes}
    \cup {parse_csv_record(RowNaN).val}

\* DeceasedRecord::validate on a record
Validate ==
    /\ parsed = None
    /\ \E r \in SampleRecords :
           parsed' = Some([op |-> "validate", record |-> r, result |-> validate(r)])
    /\ UNCHANGED <<table, features, log, now, pc, req, run, response, hist, store0>>

\* Records with and without each coordinate and each optional member of the
\* properties.
FeatureRecords ==
    {DeceasedRecord("R1", "Ali", None, 20200101, 20200102, "Najaf",
                    sec, roww, plot, lat, lon) :
        sec \in {None, Some("A"), Some("")}, roww \in {None, Some(1)},
        plot \in {None, Some(2)},
        lat \in {None, Some(320000), Some(-900000)},
        lon \in {None, Some(443000), Some(1800000)}}

\* DeceasedRecord::has_coordinates and DeceasedRecord::to_geojson_feature on
\* a record
ToGeojsonFeature ==
    /\ parsed = None
    /\ \E r \in FeatureRecords :
           parsed' = Some([op |-> "feature", record |-> r,
                           has |-> has_coordinates(r),
                           result |-> to_geojson_feature(r)])
    /\ UNCHANGED <<table, features, log, now, pc, req, run, response, hist, store0>>

NextRecord == Validate \/ ToGeojsonFeature

SpecRecord == InitWith(<< >>) /\ [][NextRecord]_vars

-----------------------------------------------------------------------------
(* What the claims speak of                                                *)

\* The run got past the path check and the parsing and reached insert_batch.
Prepared(p) ==
    \/ pc[p] \in {"insert", "delete", "select", "log"}
    \/ /\ pc[p] = "done"
       /\ Unwrap(response[p]).ok \/ Unwrap(response[p]).err = "sqlx"

ReturnedOk(p) == pc[p] = "done" /\ Unwrap(response[p]).ok

Result(p) == Unwrap(response[p]).val

IsValid(r) == validate(r).ok

IsInvalid(r) == ~validate(r).ok

HasIdentity(e) == IsSome(e.record_id)

HasNoIdentity(e) == ~IsSome(e.record_id)

\* The records of the files of a listing that parse, in listing order.
RECURSIVE Pooled(_)
Pooled(entries) ==
    IF entries = << >> THEN << >>
    ELSE (IF Head(entries).kind = "file" /\ detect_and_parse(Head(entries)).ok
          THEN detect_and_parse(Head(entries)).val
          ELSE << >>) \o Pooled(Tail(entries))

\* One error without identity for each regular file of a listing that does not parse.
RECURSIVE FileErrors(_)
FileErrors(entries) ==
    IF entries = << >> THEN << >>
    ELSE (IF Head(entries).kind = "file" /\ ~detect_and_parse(Head(entries)).ok
          THEN <<file_error(Head(entries), detect_and_parse(Head(entries)).err)>>
          ELSE << >>) \o FileErrors(Tail(entries))

\* The records a prepared run parsed.
PoolOf(request) ==
    IF request.entry = "directory"
    THEN Pooled(request.path.entries)
    ELSE detect_and_parse(request.path).val

ValidationErrors(records) ==
    LET bad == SelectSeq(records, IsInvalid)
    IN  [k \in 1..Len(bad) |-> validation_error(bad[k], validate(bad[k]).err)]

FailedAttempts(p) == {k \in 1..Len(hist[p].attempts) : ~hist[p].attempts[k].ok}

OkAttempts(p) == {k \in 1..Len(hist[p].attempts) : hist[p].attempts[k].ok}

\* The columns an upsert of an existing identity leaves alone.
Frame(row) ==
    [row EXCEPT !.deceased_name = "", !.burial_date = 0, !.coordinates = None,
                !.processing_status = "", !.updated_at = 0]

-----------------------------------------------------------------------------
(* Claims                                                                  *)

\* C1: an upsert of an identity that already has a row changes, of that row,
\* only the name, the burial date, the coordinates, the processing status and
\* the modification timestamp, and sets them from the upserted record; every
\* other column of the row, and every other row, stays as it was.
C1_UpsertFrame ==
    [][\A k \in 1..Len(table) :
          /\ k <= Len(table')
          /\ Frame(table'[k]) = Frame(table[k])
          /\ table'[k] # table[k] =>
                \E p \in Procs :
                    /\ pc[p] = "insert"
                    /\ LET r == run[p].valid_records[run[p].i]
                       IN  /\ r.record_id = table[k].record_id
                           /\ table'[k].deceased_name = r.deceased_name
                           /\ table'[k].burial_date = r.burial_date
                           /\ table'[k].coordinates =
                                  ST_GeomFromText(coordinates_wkt(r), 4326)
                           /\ table'[k].processing_status = "completed"
                           /\ table'[k].updated_at = now]_vars

\* On a store that began empty, a run has upserted identity R1 twice, from two
\* records that differ in every field: the row carries the name, the burial
\* date and the (absent) coordinates of the second and the other columns of
\* the first.
C1_Witness ==
    /\ store0 = << >>
    /\ \E k \in 1..Len(table) :
          /\ table[k].record_id = "R1"
          /\ table[k].deceased_name = "Ali Reza"
          /\ table[k].burial_date = 20200103
          /\ table[k].coordinates = None
          /\ table[k].burial_location = "Najaf"
          /\ table[k].death_date = 20200101
          /\ table[k].section = Some("A")

\* C2: when a request is served again and the second run returns Ok with the
\* same outcome of every upsert as the first, the records table (timestamps
\* aside) and the feature collection are as the first run left them and the
\* audit log has exactly one entry more; and no identity ever has two rows.
C2_Idempotent ==
    /\ \A j, k \in 1..Len(table) : j # k => table[j].record_id # table[k].record_id
    /\ \A p \in Procs :
          (/\ ReturnedOk(p)
           /\ IsSome(hist[p].prev)
           /\ Unwrap(Unwrap(hist[p].prev).response).ok
           /\ hist[p].attempts = Unwrap(hist[p].prev).attempts)
          => LET prev == Unwrap(hist[p].prev)
             IN  /\ no_ts(table) = prev.table
                 /\ features = prev.features
                 /\ Len(log) = Len(prev.log) + 1
                 /\ SubSeq(log, 1, Len(prev.log)) = prev.log

\* A request with two records of one identity has been served twice with every
\* upsert succeeding, on a store that held a row before.
C2_Witness ==
    \E p \in Procs :
        /\ ReturnedOk(p)
        /\ IsSome(hist[p].prev)
        /\ Unwrap(Unwrap(hist[p].prev).response).ok
        /\ hist[p].attempts = Unwrap(hist[p].prev).attempts
        /\ Len(hist[p].attempts) >= 3
        /\ FailedAttempts(p) = {}
        /\ store0 # << >>
        /\ features # << >>

\* C3: while a rebuild is between its two statements, the feature collection
\* having held features before it and the store holding a record with geometry
\* and completed status, the collection a reader sees is not empty and holds a
\* feature for every such record.
C3_AtomicRebuild ==
    \A p \in Procs :
        (/\ pc[p] = "select"
         /\ IsSome(hist[p].before)
         /\ Unwrap(hist[p].before) # << >>
         /\ \E k \in 1..Len(table) : feature_source(table[k]))
        => /\ features # << >>
           /\ \A k \in 1..Len(table) :
                  feature_source(table[k]) =>
                      \E j \in 1..Len(features) :
                          features[j].feature_id = table[k].record_id

\* C4: of the records a run parsed, exactly those validate() accepts form the
\* batch, in order and unchanged; each of the others adds one error carrying
\* its identity and the reason, in order; and every record handed to an upsert
\* is a record of the batch that validate() accepts.
C4_ValidationGates ==
    \A p \in Procs :
        Prepared(p) =>
            /\ run[p].valid_records = SelectSeq(PoolOf(req[p]), IsValid)
            /\ SelectSeq(run[p].errors, HasIdentity) = ValidationErrors(PoolOf(req[p]))
            /\ \A k \in 1..Len(hist[p].attempts) :
                  /\ k <= Len(run[p].valid_records)
                  /\ hist[p].attempts[k].record = run[p].valid_records[k]
                  /\ validate(hist[p].attempts[k].record).ok

\* A run whose pool held a record validate() rejects has upserted another
\* record and returned a result that lists the rejected record's identity.
C4_Witness ==
    /\ \E p \in Procs :
          /\ ReturnedOk(p)
          /\ SelectSeq(PoolOf(req[p]), IsInvalid) # << >>
          /\ OkAttempts(p) # {}
          /\ \E j \in 1..Len(Result(p).errors) :
                 Result(p).errors[j].record_id = Some("R4")

\* The records of the data lines of a tabular file that have the header's
\* field count and two dates that parse, in file order.
RECURSIVE GoodRows(_, _)
GoodRows(header, rows) ==
    IF rows = << >> THEN << >>
    ELSE (IF csv_deserialize(header, Head(rows)).ok /\ parse_csv_record(Head(rows)).ok
          THEN <<parse_csv_record(Head(rows)).val>>
          ELSE << >>) \o GoodRows(header, Tail(rows))

\* C5: the tabular strategy returns Ok for every tabular file, with one record
\* for each data line that reads and whose dates parse, in file order, and one
\* warning for each other data line.
C5_BadRowSkipped ==
    IsSome(parsed) =>
        LET file == Unwrap(parsed).file
            res  == Unwrap(parsed).result
            good == GoodRows(file.lines[1], Tail(file.lines))
        IN  /\ res.ok
            /\ res.val.records = good
            /\ Len(res.val.warnings) = Len(file.lines) - 1 - Len(good)

\* C6: a directory run over the tabular file of two valid rows and one row
\* with a malformed date and a file of an unsupported extension, on an empty
\* store and with every statement succeeding, returns records_processed = 2,
\* records_failed = 2 and geojson_features_created = 1 (one of the two rows
\* carries coordinates).
C6_EndToEnd ==
    \A p \in Procs :
        (/\ ReturnedOk(p)
         /\ store0 = << >>
         /\ req[p].entry = "directory"
         /\ req[p].path.entries \in {<<FileA, FileT>>, <<FileT, FileA>>}
         /\ FailedAttempts(p) = {})
        => /\ Result(p).records_processed = 2
           /\ Result(p).records_failed = 2
           /\ Result(p).geojson_features_created = 1

\* C7: a directory run on a readable directory is never ended by a file: it
\* reaches insert_batch with one error without identity for each regular file
\* that did not parse, in listing order, and with the records of all the files
\* that parsed pooled in listing order; it ends only by returning its result,
\* which carries these errors, or by the failure of a database statement.
C7_FileFailuresCollected ==
    \A p \in Procs :
        (/\ pc[p] # "idle"
         /\ req[p].entry = "directory"
         /\ req[p].path.kind = "dir"
         /\ req[p].path.readable)
        => /\ Prepared(p)
           /\ SelectSeq(run[p].errors, HasNoIdentity) = FileErrors(req[p].path.entries)
           /\ run[p].valid_records = SelectSeq(Pooled(req[p].path.entries), IsValid)
           /\ Len(run[p].errors) =
                  Len(FileErrors(req[p].path.entries))
                  + Len(SelectSeq(Pooled(req[p].path.entries), IsInvalid))
           /\ ReturnedOk(p) =>
                  /\ Result(p).errors = run[p].errors
                  /\ Result(p).records_failed = Len(run[p].errors)

\* A directory whose first file does not parse and whose second does has been
\* served: the result carries the error of the first and counts an upsert of
\* a record of the second.
C7_Witness ==
    \E p \in Procs :
        /\ ReturnedOk(p)
        /\ req[p].entry = "directory"
        /\ Len(req[p].path.entries) = 2
        /\ ~detect_and_parse(req[p].path.entries[1]).ok
        /\ req[p].path.entries[1].kind = "file"
        /\ detect_and_parse(req[p].path.entries[2]).ok
        /\ Result(p).records_processed > 0
        /\ \E j \in 1..Len(Result(p).errors) : Result(p).errors[j].record_id = None

\* C8: a single-file run on a regular file is never ended by the file: when
\* the file does not parse, the failure is collected as an error and the run
\* reaches insert_batch; it ends only by returning its result or by the
\* failure of a database statement.
C8_SingleFileCollects ==
    \A p \in Procs :
        (/\ pc[p] # "idle"
         /\ req[p].entry = "single"
         /\ req[p].path.kind = "file")
        => /\ Prepared(p)
           /\ ~detect_and_parse(req[p].path).ok =>
                  run[p].errors =
                      <<file_error(req[p].path, detect_and_parse(req[p].path).err)>>

\* The last successful upsert of each identity among the attempts of a run.
LastOk(p, k) ==
    /\ hist[p].attempts[k].ok
    /\ \A j \in OkAttempts(p) :
           hist[p].attempts[j].record.record_id = hist[p].attempts[k].record.record_id
               => j <= k

\* C9: insert_batch attempts every record of the batch once, in order, whatever
\* fails: the run leaves the loop only after the last record, its count is the
\* number of upserts that succeeded, and each upsert that succeeded stays in
\* the table whatever failed after it.
C9_BatchNeverFails ==
    \A p \in Procs :
        Prepared(p) =>
            /\ Len(hist[p].attempts) <= Len(run[p].valid_records)
            /\ \A k \in 1..Len(hist[p].attempts) :
                  hist[p].attempts[k].record = run[p].valid_records[k]
            /\ run[p].inserted = Cardinality(OkAttempts(p))
            /\ pc[p] = "insert" =>
                  /\ run[p].i = Len(hist[p].attempts) + 1
                  /\ run[p].i <= Len(run[p].valid_records)
            /\ pc[p] # "insert" => Len(hist[p].attempts) = Len(run[p].valid_records)
            /\ ReturnedOk(p) => Result(p).records_processed = Cardinality(OkAttempts(p))
            /\ \A k \in OkAttempts(p) :
                  \E j \in 1..Len(table) :
                      /\ table[j].record_id = hist[p].attempts[k].record.record_id
                      /\ LastOk(p, k) =>
                            /\ table[j].deceased_name = hist[p].attempts[k].record.deceased_name
                            /\ table[j].burial_date = hist[p].attempts[k].record.burial_date

\* A run has returned whose batch had a successful upsert, then a failed one,
\* then a successful one.
C9_Witness ==
    \E p \in Procs :
        /\ ReturnedOk(p)
        /\ \E i, j, k \in 1..Len(hist[p].attempts) :
              /\ i < j
              /\ j < k
              /\ hist[p].attempts[i].ok
              /\ ~hist[p].attempts[j].ok
              /\ hist[p].attempts[k].ok
        /\ Result(p).records_processed = Len(hist[p].attempts) - 1

\* C10: in the result of a run, each record whose upsert failed has an entry
\* of its identity in the error list and is counted in records_failed, as it
\* is in the failed count of the audit entry.
C10_PersistenceFailuresReported ==
    \A p \in Procs :
        ReturnedOk(p) =>
            /\ \A k \in FailedAttempts(p) :
                  \E j \in 1..Len(Result(p).errors) :
                      Result(p).errors[j].record_id =
                          Some(hist[p].attempts[k].record.record_id)
            /\ Result(p).records_failed =
                  Len(run[p].errors) + Cardinality(FailedAttempts(p))
            /\ log[Len(log)].records_failed =
                  Len(run[p].errors) + Cardinality(FailedAttempts(p))

\* C11 as stated: every run that has returned, with a result or with a fatal
\* error, has appended exactly one entry to the audit log, so the log holds as
\* many entries as runs have been served.
C11_EveryRunLogsOnce ==
    \A p \in Procs :
        pc[p] = "done" => Len(log) = hist[p].runs

\* C11, amended: the audit log only grows at its end, entries written stay as
\* they are, and a step appends at most one entry; a run that returns a result
\* has appended exactly one entry, in the step before it returns, and a run
\* ended by a fatal error has appended none, so the log holds one entry for
\* each run that returned a result.
C11_OneEntryPerResult ==
    [][/\ Len(log') \in {Len(log), Len(log) + 1}
       /\ SubSeq(log', 1, Len(log)) = log
       /\ log' # log =>
              \E p \in Procs :
                  pc[p] = "log" /\ pc'[p] = "done" /\ Unwrap(response'[p]).ok
       /\ \A p \in Procs :
              pc'[p] = "done" =>
                  Len(log') = IF Unwrap(response'[p]).ok
                              THEN hist'[p].runs
                              ELSE hist'[p].runs - 1]_vars

\* A request has been served twice: the log holds two entries, the first as
\* the first run wrote it.
C11_Witness ==
    \E p \in Procs :
        /\ ReturnedOk(p)
        /\ hist[p].runs = 2
        /\ Len(log) = 2
        /\ log[1] = Unwrap(hist[p].prev).log[1]
        /\ log[2].processing_end_time > log[1].processing_end_time

\* The audit entry a run that returned a result wrote: the last of the log.
AuditEntry(p) == log[Len(log)]

\* C12: the audit entry of a run that returned a result has a total that is the
\* number of parsed records validate() accepted plus the number it rejected, a
\* processed count that is the number of upserts that succeeded and a failed
\* count that is the number of validation and parse errors collected; the
\* result carries the same processed and failed counts.
C12_AuditCounts ==
    \A p \in Procs :
        ReturnedOk(p) =>
            /\ AuditEntry(p).records_total =
                   Len(SelectSeq(PoolOf(req[p]), IsValid))
                   + Len(SelectSeq(PoolOf(req[p]), IsInvalid))
            /\ AuditEntry(p).records_processed = Cardinality(OkAttempts(p))
            /\ AuditEntry(p).records_failed = Len(run[p].errors)
            /\ Result(p).records_processed = AuditEntry(p).records_processed
            /\ Result(p).records_failed = AuditEntry(p).records_failed

\* The rebuild of the run has completed and nothing has run since.
Rebuilt(p) == pc[p] = "log" \/ ReturnedOk(p)

\* The positions of the features of an identity in the collection.
FeaturesOf(id) == {j \in 1..Len(features) : features[j].feature_id = id}

\* C13: when the rebuild of a run has completed, the feature collection holds
\* exactly one feature for each row of the records table with non-null
\* geometry and completed status, built from that row whichever run wrote it;
\* it holds no feature for a row whose geometry is null or whose status is not
\* completed, none for an identity without a row and none left from before;
\* and the count the rebuild returned is the size of the collection.
C13_FullRebuild ==
    \A p \in Procs :
        Rebuilt(p) =>
            /\ \A k \in 1..Len(table) :
                   IF feature_source(table[k])
                   THEN /\ Cardinality(FeaturesOf(table[k].record_id)) = 1
                        /\ \A j \in FeaturesOf(table[k].record_id) :
                               features[j] = feature_of(table[k])
                   ELSE FeaturesOf(table[k].record_id) = {}
            /\ \A j \in 1..Len(features) :
                   \E k \in 1..Len(table) : table[k].record_id = features[j].feature_id
            /\ run[p].geojson_count = Len(features)
            /\ ReturnedOk(p) => Result(p).geojson_features_created = Len(features)

\* A run on a store that held a feature for R1 has upserted R1 without
\* coordinates, a record with only a latitude and one with only a longitude,
\* and rebuilt: R1's feature is gone and the two records have rows and no
\* feature.
C13_Witness ==
    \E p \in Procs :
        /\ ReturnedOk(p)
        /\ \E j \in 1..Len(Unwrap(hist[p].before)) :
               Unwrap(hist[p].before)[j].feature_id = "R1"
        /\ FeaturesOf("R1") = {}
        /\ \E k \in 1..Len(table) : table[k].record_id = "R7"
        /\ \E k \in 1..Len(table) : table[k].record_id = "R9"
        /\ FeaturesOf("R7") = {} /\ FeaturesOf("R9") = {}

\* The identities that have a row in a table.
Ids(tbl) == {tbl[k].record_id : k \in 1..Len(tbl)}

\* The rows of an identity in a table.
RowsOf(tbl, id) == {tbl[k] : k \in {j \in 1..Len(tbl) : tbl[j].record_id = id}}

\* An instance is at an upsert of this identity.
Upserting(id) ==
    \E p \in Procs :
        /\ pc[p] = "insert"
        /\ run[p].valid_records[run[p].i].record_id = id

\* C14: in every step of any interleaving of runs, every identity that had a
\* row still has one, no identity has two rows (no two positions of the table
\* carry one identity), and a row that is new or differs from what it was
\* belongs to the identity an instance is upserting in that step.
C14_RowsNeverDeleted ==
    [][/\ Ids(table) \subseteq Ids(table')
       /\ \A j, k \in 1..Len(table') :
              j # k => table'[j].record_id # table'[k].record_id
       /\ \A id \in Ids(table') :
              RowsOf(table', id) # RowsOf(table, id) => Upserting(id)]_vars

\* Two instances have served their requests at the same time on a store that
\* held rows: one upserted an identity that had a row and the other one that
\* had none, and the table holds the old identities and the new one.
C14_Witness ==
    /\ store0 # << >>
    /\ Ids(table) = Ids(store0) \cup {"R2"}
    /\ "R2" \notin Ids(store0)
    /\ \E p, q \in Procs :
          /\ ReturnedOk(p) /\ ReturnedOk(q)
          /\ \E k \in OkAttempts(p) : hist[p].attempts[k].record.record_id = "R1"
          /\ \E k \in OkAttempts(q) : hist[q].attempts[k].record.record_id = "R2"
          /\ RowsOf(table, "R1") # RowsOf(store0, "R1")

\* What validate() checks, in its order, and the error of each check.
Checks(r) ==
    << r.record_id # "",
       r.deceased_name # "",
       r.burial_location # "",
       r.burial_date >= r.death_date,
       has_coordinates(r) =>
           /\ Unwrap(r.latitude) # NaN
           /\ Unwrap(r.latitude) >= -900000
           /\ Unwrap(r.latitude) <= 900000,
       has_coordinates(r) =>
           /\ Unwrap(r.longitude) # NaN
           /\ Unwrap(r.longitude) >= -1800000
           /\ Unwrap(r.longitude) <= 1800000 >>

CheckErrors ==
    << "record_id is required", "deceased_name is required",
       "burial_location is required", "burial_date cannot be before death_date",
       "Invalid latitude", "Invalid longitude" >>

\* C15: validate() returns Ok exactly when the identity, the name and the
\* burial location are non-empty, the burial date is not before the death
\* date and, both coordinates being present, the latitude is in [-90, 90] and
\* the longitude in [-180, 180], bounds included; otherwise it returns the
\* error of the first check that fails, in the order identity, name, burial
\* location, dates, latitude, longitude.
C15_ValidateExact ==
    (IsSome(parsed) /\ Unwrap(parsed).op = "validate") =>
        LET r      == Unwrap(parsed).record
            res    == Unwrap(parsed).result
            failed == {i \in 1..6 : ~Checks(r)[i]}
        IN  /\ res.ok <=> failed = {}
            /\ ~res.ok =>
                   \E i \in failed :
                       /\ \A j \in failed : i <= j
                       /\ res.err = CheckErrors[i]

\* The path of the request is not what its entry point asks for.
BadPath(request) ==
    \/ request.entry = "directory" /\ request.path.kind # "dir"
    \/ request.entry = "single" /\ request.path.kind # "file"

PathError(request) ==
    IF request.entry = "directory"
    THEN "Directory does not exist or is not a directory"
    ELSE "File does not exist or is not a file"

\* C16: a run on a path that does not exist or is of the wrong type has
\* returned its fatal error as soon as it has begun: no upsert was attempted,
\* no rebuild began, the records table and the feature collection are as they
\* were and the audit log has no entry.
C16_PathErrorTouchesNothing ==
    \A p \in Procs :
        (pc[p] # "idle" /\ BadPath(req[p])) =>
            /\ pc[p] = "done"
            /\ ~Unwrap(response[p]).ok
            /\ Unwrap(response[p]).err = PathError(req[p])
            /\ hist[p].attempts = << >>
            /\ hist[p].before = None
            /\ table = store0
            /\ features = select_features(store0)
            /\ log = << >>

\* process_directory has returned its path error for a path that is a
\* regular file, on a store that holds rows and a feature.
C16_Witness ==
    \E p \in Procs :
        /\ pc[p] = "done"
        /\ req[p].entry = "directory"
        /\ req[p].path.kind = "file"
        /\ Unwrap(response[p]).err = "Directory does not exist or is not a directory"
        /\ table # << >>
        /\ features # << >>

\* The stages of a run in their order: the scan, the parsing and the
\* validation are done when the run leaves "idle".
Stage(at) ==
    CASE at = "idle"   -> 0
      [] at = "insert" -> 1
      [] at = "delete" -> 2
      [] at = "select" -> 3
      [] at = "log"    -> 4
      [] at = "done"   -> 5

\* C17: every step of a run moves it forward: to a later stage, or to the next
\* record of the batch, each record being attempted once.  The rebuild begins
\* only when every record of the batch has been attempted and the table is
\* written by no later stage; the feature collection is written only by the
\* rebuild; the audit entry is written only after the rebuild has returned;
\* and the result is returned only in the step that writes the audit entry.
C17_StagesInOrder ==
    [][/\ \A p \in Procs :
          /\ pc'[p] # pc[p] => Stage(pc'[p]) > Stage(pc[p])
          /\ (pc'[p] = pc[p] /\ run'[p] # run[p]) =>
                 /\ pc[p] = "insert"
                 /\ run'[p].i = run[p].i + 1
                 /\ Len(hist'[p].attempts) = Len(hist[p].attempts) + 1
          /\ pc'[p] \in {"delete", "select", "log"} =>
                 Len(hist'[p].attempts) = Len(run'[p].valid_records)
          /\ hist'[p].attempts # hist[p].attempts => pc[p] \in {"idle", "insert"}
          /\ (pc'[p] = "log" /\ pc[p] # "log") => pc[p] = "select"
          /\ (pc'[p] = "done" /\ pc[p] # "done" /\ Unwrap(response'[p]).ok) =>
                 pc[p] = "log" /\ Len(log') = Len(log) + 1
       /\ table' # table => \E p \in Procs : pc[p] = "insert" /\ run'[p] # run[p]
       /\ features' # features =>
              \E p \in Procs : pc[p] \in {"delete", "select"} /\ pc'[p] # pc[p]
       /\ log' # log => \E p \in Procs : pc[p] = "log" /\ pc'[p] = "done"]_vars

\* A run has gone through every stage: a batch of three with a failed upsert,
\* a rebuild that left features, the audit entry and the result.
C17_Witness ==
    \E p \in Procs :
        /\ ReturnedOk(p)
        /\ Len(hist[p].attempts) = 3
        /\ FailedAttempts(p) # {}
        /\ run[p].errors # << >>
        /\ features # << >>
        /\ Len(log) = 1

\* A record object has every required member and two dates that parse.
WellFormed(j) ==
    /\ IsSome(j.record_id) /\ IsSome(j.deceased_name) /\ IsSome(j.burial_location)
    /\ IsSome(j.death_date) /\ IsSome(j.burial_date)
    /\ IsSome(j.coordinates) =>
           IsSome(Unwrap(j.coordinates).latitude) /\ IsSome(Unwrap(j.coordinates).longitude)
    /\ Unwrap(j.death_date) \in DOMAIN DateText
    /\ Unwrap(j.burial_date) \in DOMAIN DateText

\* The records of a file the scan of a directory that holds it alone pools.
PooledFrom(file) ==
    scan_loop(<<file>>, 1, [all_records |-> << >>, errors |-> << >>]).all_records

\* C18: the hierarchical strategy returns, for a file whose record objects
\* all have their required members and dates that parse, one record for each
\* object, in file order; for a file with an object that lacks a required
\* member or has a date that does not parse it fails, and no record of the
\* file is pooled, the well-formed ones before the bad one included.
C18_JsonAllOrNothing ==
    (IsSome(parsed) /\ Unwrap(parsed).op = "json"
                    /\ IsSome(Unwrap(parsed).file.doc.records)) =>
        LET file == Unwrap(parsed).file
            res  == Unwrap(parsed).result
            objs == Unwrap(file.doc.records)
        IN  IF \A k \in 1..Len(objs) : WellFormed(objs[k])
            THEN /\ res.ok
                 /\ Len(res.val) = Len(objs)
                 /\ \A k \in 1..Len(objs) :
                        /\ res.val[k].record_id = Unwrap(objs[k].record_id)
                        /\ res.val[k].deceased_name = Unwrap(objs[k].deceased_name)
                        /\ res.val[k].death_date = DateText[Unwrap(objs[k].death_date)]
                        /\ res.val[k].burial_date = DateText[Unwrap(objs[k].burial_date)]
                        /\ has_coordinates(res.val[k]) <=> IsSome(objs[k].coordinates)
                 /\ PooledFrom(file) = res.val
            ELSE /\ ~res.ok
                 /\ PooledFrom(file) = << >>

\* A file of two well-formed objects followed by one with a bad date has been
\* parsed, and the parse failed.
C18_Witness ==
    /\ IsSome(parsed)
    /\ Unwrap(parsed).op = "json"
    /\ Unwrap(parsed).file.doc.records = Some(<<JsonR2, JsonR3, JsonBadBurial>>)
    /\ ~Unwrap(parsed).result.ok

\* The spellings of an extension in other letter cases, itself included.
CasesOf(e) == UNION {c \in ExtensionCases : e \in c}

\* C19: what detect_and_parse returns for a file is what it returns for the
\* file with its extension in any other letter case; for the tabular
\* extension it is what parse_csv_file returns and for the hierarchical one
\* what parse_json_file returns; for any other extension and for none it is
\* an error that does not depend on the content of the file, be it even
\* unreadable.
C19_DetectionByExtension ==
    (IsSome(parsed) /\ Unwrap(parsed).op = "detect") =>
        LET file == Unwrap(parsed).file
            res  == Unwrap(parsed).result
        IN  /\ IsSome(file.ext) =>
                   \A e \in CasesOf(Unwrap(file.ext)) :
                       detect_and_parse([file EXCEPT !.ext = Some(e)]) = res
            /\ CASE file.ext = None -> res = Err("No file extension found")
                  [] file.ext # None /\ "csv" \in CasesOf(Unwrap(file.ext)) ->
                         res = parse_csv_file(file)
                  [] file.ext # None /\ "json" \in CasesOf(Unwrap(file.ext)) ->
                         res = parse_json_file(file)
                  [] OTHER -> res = Err("Unsupported file format")

\* A hierarchical file with its extension in capitals has been parsed to one
\* record.
C19_Witness ==
    /\ IsSome(parsed)
    /\ Unwrap(parsed).op = "detect"
    /\ Unwrap(parsed).file.ext = Some("JSON")
    /\ Unwrap(parsed).result.ok
    /\ Len(Unwrap(parsed).result.val) = 1

\* The members of the properties of a feature that a record may lack, each
\* with the field it comes from.
OptionalMembers(r) ==
    [k \in {"section", "row", "plot"} |->
        CASE k = "section" -> r.section
          [] k = "row" -> r.row_number
          [] k = "plot" -> r.plot_number]

\* C20: has_coordinates() is true exactly when the latitude and the longitude
\* are both present; to_geojson_feature() returns a feature exactly then; the
\* feature is a point whose coordinates are the longitude, then the latitude;
\* its properties always hold the identity, the name, the burial date and the
\* burial location, and hold section, row and plot exactly when the record
\* has them, with the record's value.
C20_FeatureOfRecord ==
    (IsSome(parsed) /\ Unwrap(parsed).op = "feature") =>
        LET r == Unwrap(parsed).record
            f == Unwrap(parsed).result
        IN  /\ Unwrap(parsed).has <=> (r.latitude # None /\ r.longitude # None)
            /\ IsSome(f) <=> Unwrap(parsed).has
            /\ IsSome(f) =>
                   /\ Unwrap(f).geometry.geometry_type = "Point"
                   /\ Len(Unwrap(f).geometry.coordinates) = 2
                   /\ Unwrap(f).geometry.coordinates[1] = Unwrap(r.longitude)
                   /\ Unwrap(f).geometry.coordinates[2] = Unwrap(r.latitude)
                   /\ {"record_id", "name", "burial_date", "burial_location"}
                          \subseteq DOMAIN Unwrap(f).properties
                   /\ Unwrap(f).properties["record_id"] = r.record_id
                   /\ \A k \in {"section", "row", "plot"} :
                          /\ k \in DOMAIN Unwrap(f).properties
                                 <=> IsSome(OptionalMembers(r)[k])
                          /\ IsSome(OptionalMembers(r)[k]) =>
                                 Unwrap(f).properties[k] = Unwrap(OptionalMembers(r)[k])

\* The record with latitude 32.0 and longitude 44.3, a section and no row has
\* given a feature at [44.3, 32.0] with a section and without a row.
C20_Witness ==
    /\ IsSome(parsed)
    /\ Unwrap(parsed).op = "feature"
    /\ Unwrap(parsed).record.latitude = Some(320000)
    /\ Unwrap(parsed).record.longitude = Some(443000)
    /\ IsSome(Unwrap(parsed).result)
    /\ Unwrap(Unwrap(parsed).result).geometry.coordinates = <<443000, 320000>>
    /\ "section" \in DOMAIN Unwrap(Unwrap(parsed).result).properties
    /\ "row" \notin DOMAIN Unwrap(Unwrap(parsed).result).properties

\* C21: when every instance has served its request and returned a result, the
\* feature collection holds exactly one feature for each row of the records
\* table that has coordinates and completed status, and no other feature,
\* however the DELETE and the INSERT ... SELECT of the instances interleaved.
C21_ConcurrentRebuilds ==
    (\A p \in Procs : ReturnedOk(p)) =>
        /\ \A k \in 1..Len(table) :
               Cardinality(FeaturesOf(table[k].record_id)) =
                   IF feature_source(table[k]) THEN 1 ELSE 0
        /\ \A j \in 1..Len(features) : features[j].feature_id \in Ids(table)

\* C22: on a store that began empty, so that every row comes from upserts of
\* records validate() accepted, every row of the records table has a
\* non-empty identity, name and burial location and a burial date that is not
\* before its death date, rows updated by a later upsert included.
C22_RowInvariants ==
    store0 = << >> =>
        \A k \in 1..Len(table) :
            /\ table[k].record_id # ""
            /\ table[k].deceased_name # ""
            /\ table[k].burial_location # ""
            /\ table[k].burial_date >= table[k].death_date

\* The feature collection as it was when the rebuild of the run was called.
BeforeRebuild(p) == IF pc[p] = "delete" THEN features ELSE Unwrap(hist[p].before)

\* C23: a step in which the rebuild of a run fails, at its DELETE or at its
\* INSERT ... SELECT after the DELETE has run, leaves the feature collection
\* as it was when the rebuild was called.
C23_FailedRebuildKeepsFeatures ==
    [][\A p \in Procs :
          (pc[p] \in {"delete", "select"} /\ pc'[p] = "done") =>
              features' = BeforeRebuild(p)]_vars

\* The first successful upsert of each identity among the attempts of a run.
FirstOk(p, k) ==
    /\ hist[p].attempts[k].ok
    /\ \A j \in OkAttempts(p) :
           hist[p].attempts[j].record.record_id = hist[p].attempts[k].record.record_id
               => k <= j

\* C24: the step in which a run is ended by the failure of its rebuild or of
\* its audit write leaves the records table as it is, and after it every
\* record the run upserted has its row: the row carries the name, the burial
\* date, the coordinates and the completed status of the last successful
\* upsert of its identity and, the identity being new to the store, the death
\* date and the burial location of the first.
C24_UpsertsSurviveAbort ==
    [][\A p \in Procs :
          (/\ pc[p] \in {"delete", "select", "log"}
           /\ pc'[p] = "done"
           /\ ~Unwrap(response'[p]).ok)
          => /\ table' = table
             /\ \A k \in OkAttempts(p) :
                    LET r == hist[p].attempts[k].record
                    IN  \E j \in 1..Len(table') :
                            /\ table'[j].record_id = r.record_id
                            /\ LastOk(p, k) =>
                                   /\ table'[j].deceased_name = r.deceased_name
                                   /\ table'[j].burial_date = r.burial_date
                                   /\ table'[j].coordinates =
                                          ST_GeomFromText(coordinates_wkt(r), 4326)
                                   /\ table'[j].processing_status = "completed"
                            /\ (FirstOk(p, k) /\ r.record_id \notin Ids(store0)) =>
                                   /\ table'[j].death_date = r.death_date
                                   /\ table'[j].burial_location = r.burial_location]_vars

\* A run on a store that held a row for R1 has upserted R1 and another
\* identity and has then been ended by a failed statement, with no audit
\* entry: R1's row carries the new name and the other identity has its row.
C24_Witness ==
    \E p \in Procs :
        /\ pc[p] = "done"
        /\ ~Unwrap(response[p]).ok
        /\ Unwrap(response[p]).err = "sqlx"
        /\ log = << >>
        /\ "R1" \in Ids(store0)
        /\ Cardinality(OkAttempts(p)) >= 2
        /\ \E k \in OkAttempts(p) : hist[p].attempts[k].record.record_id = "R1"
        /\ RowsOf(table, "R1") # RowsOf(store0, "R1")
        /\ Ids(table) # Ids(store0)

====
